---- MODULE Spec2Model ----
(***************************************************************************)
(* A model of three CellProfiler pipeline modules:                         *)
(*   MeasureNeuralFeatures        (batch accumulator, SpecNeural)          *)
(*   MeasureImageViaRemoteService (response parser,   SpecRemote)          *)
(*   DistanceTransform            (distance transform, SpecDT)             *)
(* The host calls the modules from one thread; every action below is one   *)
(* whole host call (prepare_group, run, post_group).                       *)
(***************************************************************************)
EXTENDS Integers, Sequences, FiniteSets, TLC

\* ------------------------------------------------------------------ bounds
MaxBatch == 3        \* the batch sizes tried are 1..MaxBatch
MaxImages == 5       \* image sets the host hands to run over a pipeline run
MaxGroups == 2       \* processing groups the host opens
MaxPixel == 2        \* distinct pixel contents of an input image
NumFeatures == 2     \* width of the network's feature vector

VARIABLES
    \* --- MeasureNeuralFeatures: self.batch_size and get_dictionary()['Neural']
    batch_size,          \* self.batch_size.value
    has_neural,          \* 'Neural' in get_dictionary()
    count,               \* d['count']
    images,              \* d['images']
    image_set_numbers,   \* d['image_set_numbers']
    session,             \* d['session'], d['features'], d['input_placeholder']: one handle, 0 = absent
    \* --- the host's measurement store and its calling position
    meas,                \* [<<image_set_number, j>> -> sequence of the values written]
    image_set_number,    \* meas.image_set_number of the latest run (0 before the first)
    group,               \* number of prepare_group calls made
    phase,               \* "idle" | "in_group" | "aborted"
    lastCall,            \* the host call that produced this state
    \* --- history of the calls (observers, not read by the module)
    loads,               \* number of model loads (tf.Session() + restore)
    groupSession,        \* groupSession[g]: the handle prepare_group of group g stored
    runGroup,            \* runGroup[n]: the group whose run received image set n (0: none yet)
    runImage,            \* runImage[n]: the pixel data run received with image set n (0: none yet)
    flushLog,            \* one record per process_batch invocation
    \* --- MeasureImageViaRemoteService: one run on one image set
    rs_phase,            \* "ready" (run not yet called on this image set) | "done"
    rpc_failed,          \* whether the self.stub.Classify call of the run failed
    result,              \* the lines of str(self.stub.Classify(...)), <<>> before the call
    attempts,            \* calls of self.stub.Classify made by the run
    raised,              \* "none" | "rpc" | "parse": the error that left run
    classes,             \* get_service_response: classes
    scores,              \* get_service_response: scores
    lines,               \* get_service_response: lines
    disp_lines,          \* get_service_response: disp_lines
    statistics,          \* workspace.display_data.statistics
    added,               \* the meas.add_image_measurement calls of the run, in order
    \* --- DistanceTransform: one run on one image set
    dt_phase,            \* "ready" (run not yet called on this image set) | "done"
    pixel_data,          \* x.pixel_data, the input image as the host holds it
    x_data,              \* skimage.img_as_uint(x.pixel_data)
    y_data,              \* the pixel data of the image added as y_name
    dt_raised            \* whether run ended with an error

neuralVars == <<batch_size, has_neural, count, images, image_set_numbers, session,
                meas, image_set_number, group, phase, lastCall,
                loads, groupSession, runGroup, runImage, flushLog>>

remoteVars == <<rs_phase, rpc_failed, result, attempts, raised, classes, scores, lines,
                disp_lines, statistics, added>>

dtVars == <<dt_phase, pixel_data, x_data, y_data, dt_raised>>

vars == <<neuralVars, remoteVars, dtVars>>

ImageNums == 1..MaxImages
FeatureIdx == 0..(NumFeatures - 1)
Pixels == 1..MaxPixel

\* The network maps an image to its feature row: row i of the output depends on
\* image i of the batch alone, and distinct (image, j) give distinct values.
Features(image, j) == <<image, j>>

\* the state of a module the host has constructed but not called
RemoteIdle ==
    /\ rs_phase = "ready"
    /\ rpc_failed = FALSE
    /\ result = <<>>
    /\ attempts = 0
    /\ raised = "none"
    /\ classes = <<>>
    /\ scores = <<>>
    /\ lines = <<>>
    /\ disp_lines = <<>>
    /\ statistics = <<>>
    /\ added = <<>>

DTIdle ==
    /\ dt_phase = "ready"
    /\ pixel_data = <<>>
    /\ x_data = <<>>
    /\ y_data = <<>>
    /\ dt_raised = FALSE

\* ------------------------------------------------- MeasureNeuralFeatures
\* meas.add_measurement(IMAGE, 'Neural_<name>_f<j>', rows[i][j], image_set_number=nums[i])
\* for every row i and column j of the extracted features.
\* image_set_number=image_nums[i]: the image set row i is written to
RowImageSetOfFlush(nums, i) == nums[Len(nums)]
RowImageSet(nums, i) == nums[i]

RECURSIVE AddRows(_, _, _, _)
AddRows(m, imgs, nums, i) ==
    IF i > Len(imgs) THEN m
    ELSE AddRows([k \in DOMAIN m |->
                    IF k[1] = RowImageSet(nums, i)
                    THEN Append(m[k], Features(imgs[i], k[2]))
                    ELSE m[k]],
                 imgs, nums, i + 1)

\* d['images'] = [] ; d['image_set_numbers'] = [] at the end of process_batch
KeepAfterFlush(list) == list
ClearAfterFlush(list) == <<>>

\* the handle process_batch reads from d['session']
SessionInBatch == session

\* process_batch on the accumulated lists imgs/nums, invoked by host call `by`.
\* ok = FALSE: session.run raises; nothing is written and nothing is cleared.
process_batch(imgs, nums, by, ok) ==
    /\ flushLog' = Append(flushLog, [by |-> by, nums |-> nums, group |-> group,
                                     session |-> SessionInBatch, raised |-> ~ok])
    /\ loads' = loads
    /\ IF ok
       THEN /\ meas' = AddRows(meas, imgs, nums, 1)
            /\ images' = ClearAfterFlush(imgs)
            /\ image_set_numbers' = ClearAfterFlush(nums)
       ELSE /\ meas' = meas
            /\ images' = imgs
            /\ image_set_numbers' = nums

\* len(d['images']) >= self.batch_size.value
FlushNeededLate(n, B) == n > B
FlushNeeded(n, B) == n >= B

\* d['images'] = [] ; d['image_set_numbers'] = [] in the fresh dictionary
ReusedList(old) == old
NewList(old) == <<>>

\* the handle prepare_group stores in d['session']
StaleSession(loaded) == IF session = 0 THEN loaded ELSE session
StoredSession(loaded) == loaded

\* prepare_group: a fresh 'Neural' dictionary, then the model load.
\* ok = FALSE: the checkpoint cannot be loaded; the dictionary is already reset.
prepare_group_ok(ok) ==
    /\ phase \in {"idle", "in_group"}
    /\ group < MaxGroups
    /\ has_neural' = TRUE
    /\ count' = 0
    /\ images' = NewList(images)
    /\ image_set_numbers' = NewList(image_set_numbers)
    /\ group' = group + 1
    /\ lastCall' = "prepare_group"
    /\ IF ok
       THEN /\ loads' = loads + 1
            /\ session' = StoredSession(loads + 1)
            /\ groupSession' = Append(groupSession, loads + 1)
            /\ phase' = "in_group"
       ELSE /\ loads' = loads
            /\ session' = 0
            /\ groupSession' = Append(groupSession, 0)
            /\ phase' = "aborted"
    /\ UNCHANGED <<batch_size, meas, image_set_number, runGroup, runImage, flushLog>>

prepare_group == \E ok \in BOOLEAN : prepare_group_ok(ok)

\* count = d['count'] ... d['count'] = count + 1
CountNotAdvanced(c) == c
CountAfterRun(c) == c + 1

\* run on the next image set: append, flush at capacity, then count + 1.
run_on(image, ok) ==
    /\ phase = "in_group"
    /\ has_neural
    /\ image_set_number < MaxImages
    /\ image_set_number' = image_set_number + 1
    /\ runGroup' = [runGroup EXCEPT ![image_set_number + 1] = group]
    /\ runImage' = [runImage EXCEPT ![image_set_number + 1] = image]
    /\ lastCall' = "run"
    /\ LET imgs == Append(images, image)
           nums == Append(image_set_numbers, image_set_number + 1)
       IN IF FlushNeeded(Len(imgs), batch_size)
          THEN /\ process_batch(imgs, nums, "run", ok)
               /\ count' = IF ok THEN CountAfterRun(count) ELSE count
               /\ phase' = IF ok THEN "in_group" ELSE "aborted"
          ELSE /\ ok
               /\ images' = imgs
               /\ image_set_numbers' = nums
               /\ count' = CountAfterRun(count)
               /\ UNCHANGED <<meas, flushLog, loads, phase>>
    /\ UNCHANGED <<batch_size, has_neural, session, group, groupSession>>

run == \E image \in Pixels, ok \in BOOLEAN : run_on(image, ok)

\* len(d['images']) > 0 in post_group
NeverFlushAtEnd(n) == FALSE
FlushAtEnd(n) == n > 0

\* post_group: flush what is left of the group.
post_group_ok(ok) ==
    /\ phase = "in_group"
    /\ has_neural
    /\ lastCall' = "post_group"
    /\ IF FlushAtEnd(Len(images))
       THEN /\ process_batch(images, image_set_numbers, "post_group", ok)
            /\ phase' = IF ok THEN "idle" ELSE "aborted"
       ELSE /\ ok
            /\ phase' = "idle"
            /\ UNCHANGED <<images, image_set_numbers, meas, flushLog, loads>>
    /\ UNCHANGED <<batch_size, has_neural, count, session, image_set_number,
                   group, groupSession, runGroup, runImage>>

post_group == \E ok \in BOOLEAN : post_group_ok(ok)

InitNeural ==
    /\ batch_size \in 1..MaxBatch
    /\ has_neural = FALSE
    /\ count = 0
    /\ images = <<>>
    /\ image_set_numbers = <<>>
    /\ session = 0
    /\ meas = [k \in ImageNums \X FeatureIdx |-> <<>>]
    /\ image_set_number = 0
    /\ group = 0
    /\ phase = "idle"
    /\ lastCall = "none"
    /\ loads = 0
    /\ groupSession = <<>>
    /\ runGroup = [n \in ImageNums |-> 0]
    /\ runImage = [n \in ImageNums |-> 0]
    /\ flushLog = <<>>
    /\ RemoteIdle
    /\ DTIdle

NextNeural ==
    \/ prepare_group /\ UNCHANGED <<remoteVars, dtVars>>
    \/ run /\ UNCHANGED <<remoteVars, dtVars>>
    \/ post_group /\ UNCHANGED <<remoteVars, dtVars>>

SpecNeural == InitNeural /\ [][NextNeural]_vars

\* ------------------------------------------ MeasureImageViaRemoteService
MaxLines == 4        \* lines in a response text

\* Text is a sequence of characters; a line of the response is the sequence
\* of its fields, i.e. what line.split(':') returns.
Str_classes == <<"c", "l", "a", "s", "s", "e", "s">>
Str_scores == <<"s", "c", "o", "r", "e", "s">>
Str_class == <<"c", "l", "a", "s", "s">>
Str_score == <<"s", "c", "o", "r", "e">>

ClassLineA == <<Str_classes, <<" ", "\"", "a", "\"">>>>      \* classes: "a"
ClassLineB == <<Str_classes, <<" ", "\"", "b", "\"">>>>      \* classes: "b"
ScoreLine5 == <<Str_scores, <<" ", "0", ".", "5">>>>         \* scores: 0.5
ScoreLine9 == <<Str_scores, <<" ", "0", ".", "9">>>>         \* scores: 0.9
BlankLine == <<<<" ">>>>                                     \* white space only
OtherLine == <<<<"e", "r", "r">>, <<" ", "x">>>>             \* err: x
BadLine == <<<<"o", "o", "p", "s">>>>                        \* no colon at all

LineChoices == {ClassLineA, ClassLineB, ScoreLine5, ScoreLine9,
                BlankLine, OtherLine, BadLine}

\* the texts the service may answer with
Responses == UNION {[1..n -> LineChoices] : n \in 0..MaxLines}

\* what one self.stub.Classify call does: it fails, or it returns a text
RpcFailure == [failed |-> TRUE, text |-> <<>>]
RpcOutcomes == {RpcFailure} \cup {[failed |-> FALSE, text |-> t] : t \in Responses}

\* str.strip()
RECURSIVE LStrip(_)
LStrip(s) == IF s # <<>> /\ Head(s) = " " THEN LStrip(Tail(s)) ELSE s
RECURSIVE RStrip(_)
RStrip(s) == IF s # <<>> /\ s[Len(s)] = " " THEN RStrip(SubSeq(s, 1, Len(s) - 1)) ELSE s
Strip(s) == RStrip(LStrip(s))

\* str.startswith(prefix)
StartsWith(s, prefix) == Len(s) >= Len(prefix) /\ SubSeq(s, 1, Len(prefix)) = prefix

\* line_val[1:-1]
Unquote(s) == SubSeq(s, 2, Len(s) - 1)

\* float(line_val) of a text d.d, in tenths
Digit(c) == CASE c = "0" -> 0 [] c = "1" -> 1 [] c = "5" -> 5 [] c = "9" -> 9
Float(s) == <<"float", 10 * Digit(s[1]) + Digit(s[3])>>
StrVal(s) == <<"str", s>>

\* a / b of two ints in Python 2
IntDiv(a, b) == a \div b

\* len(line.strip()) == 0
IsBlank(line) == Len(line) = 1 /\ Strip(line[1]) = <<>>

\* the loop over result.split('\n'): acc holds classes, scores, lines and
\* whether (line_type, line_val) = line.split(':') raised ValueError
RECURSIVE ParseLines(_, _, _)
ParseLines(text, i, acc) ==
    IF i > Len(text) \/ acc.raised THEN acc
    ELSE LET line == text[i]
         IN IF IsBlank(line) THEN ParseLines(text, i + 1, acc)
            ELSE IF Len(line) # 2 THEN [acc EXCEPT !.raised = TRUE]
            ELSE LET line_type == line[1]
                     line_val == Strip(line[2])
                 IN IF StartsWith(line_type, Str_score)
                    THEN ParseLines(text, i + 1,
                            [acc EXCEPT !.scores = Append(@, Float(line_val)),
                                        !.lines = Append(@, Float(line_val))])
                    ELSE IF StartsWith(line_type, Str_class)
                    THEN ParseLines(text, i + 1,
                            [acc EXCEPT !.classes = Append(@, StrVal(Unquote(line_val))),
                                        !.lines = Append(@, StrVal(Unquote(line_val)))])
                    ELSE ParseLines(text, i + 1, acc)

\* disp_lines.append([lines[(len(lines) / 2) + i], lines[i]]) for i in range(len(lines) / 2)
DispLinesAdjacent(ls) ==
    [i \in 1..IntDiv(Len(ls), 2) |-> <<ls[2 * i], ls[2 * i - 1]>>]
DispLines(ls) ==
    LET half == IntDiv(Len(ls), 2)
    IN [i \in 1..half |-> <<ls[half + i], ls[i]>>]

\* the parse of get_service_response, after the Classify call returned `text`
PositionalResponse(text) ==
    LET acc == ParseLines(text, 1, [classes |-> <<>>, scores |-> <<>>,
                                    lines |-> <<>>, raised |-> FALSE])
        half == IntDiv(Len(acc.lines), 2)
    IN [acc EXCEPT !.classes = SubSeq(acc.lines, 1, half),
                   !.scores = SubSeq(acc.lines, half + 1, 2 * half)]
ParseResponse(text) ==
    ParseLines(text, 1, [classes |-> <<>>, scores |-> <<>>,
                         lines |-> <<>>, raised |-> FALSE])

\* self.stub.Classify(request, 30.00): called once, no retry around it
ClassifyWithRetry(rpc) ==
    [failed |-> rpc.failed, attempts |-> IF rpc.failed THEN 2 ELSE 1]
Classify(rpc) == [failed |-> rpc.failed, attempts |-> 1]

\* 'class%d' % (i + 1), 'score%d' % (i + 1): a name is its prefix and its number
Name(prefix, n) == <<prefix, n>>

\* enumerate(zip(classes, scores)) counts from 0; the names use i + 1
MeasIndexFromZero(i) == i
MeasIndex(i) == i + 1

\* for i, row in enumerate(zip(classes, scores)): the add_image_measurement calls
RECURSIVE RecordPairs(_, _, _)
RecordPairs(cs, ss, i) ==
    IF i >= Len(cs) \/ i >= Len(ss) THEN <<>>
    ELSE <<<<Name("class", MeasIndex(i)), cs[i + 1]>>,
           <<Name("score", MeasIndex(i)), ss[i + 1]>>>>
         \o RecordPairs(cs, ss, i + 1)

\* statistics = [["Class", "Score"]] and one appended row per pair
RECURSIVE StatRows(_, _, _)
StatRows(cs, ss, i) ==
    IF i >= Len(cs) \/ i >= Len(ss) THEN <<>>
    ELSE <<<<cs[i + 1], ss[i + 1]>>>> \o StatRows(cs, ss, i + 1)

\* run on one image set; rpc is what the Classify call does: it fails, or it
\* returns a response text.
remote_run_on(rpc) ==
    /\ rs_phase = "ready"
    /\ rs_phase' = "done"
    /\ rpc_failed' = rpc.failed
    /\ LET call == Classify(rpc)
       IN /\ attempts' = call.attempts
          /\ IF call.failed
             THEN /\ raised' = "rpc"
                  /\ statistics' = <<<<"Class", "Score">>>>
                  /\ UNCHANGED <<result, classes, scores, lines, disp_lines, added>>
             ELSE LET r == ParseResponse(rpc.text)
                  IN /\ result' = rpc.text
                     /\ IF r.raised
                        THEN /\ raised' = "parse"
                             /\ statistics' = <<<<"Class", "Score">>>>
                             /\ UNCHANGED <<classes, scores, lines, disp_lines, added>>
                        ELSE /\ raised' = "none"
                             /\ classes' = r.classes
                             /\ scores' = r.scores
                             /\ lines' = r.lines
                             /\ disp_lines' = DispLines(r.lines)
                             /\ statistics' = <<<<"Class", "Score">>>>
                                                 \o StatRows(r.classes, r.scores, 0)
                             /\ added' = RecordPairs(r.classes, r.scores, 0)

remote_run == \E rpc \in RpcOutcomes : remote_run_on(rpc)

\* the host moves to the next image set: a new workspace, no measurement of
\* this module in it yet
remote_next_image_set ==
    /\ rs_phase = "done"
    /\ rs_phase' = "ready"
    /\ rpc_failed' = FALSE
    /\ result' = <<>>
    /\ attempts' = 0
    /\ raised' = "none"
    /\ classes' = <<>>
    /\ scores' = <<>>
    /\ lines' = <<>>
    /\ disp_lines' = <<>>
    /\ statistics' = <<>>
    /\ added' = <<>>

\* cpmeas.IMAGE, C_REMOTE_SERVICE, cpmeas.COLTYPE_VARCHAR, cpmeas.COLTYPE_FLOAT
IMAGE == "Image"
C_REMOTE_SERVICE == "RemoteService"
COLTYPE_VARCHAR == "varchar"
COLTYPE_FLOAT == "float"

\* for i in range(10)
NumColumns == 10

\* get_measurement_columns: class1, score1, ..., class5, score5
get_measurement_columns ==
    [k \in 1..NumColumns |->
        LET i == k - 1
        IN <<IMAGE,
             IF i % 2 = 0 THEN Name("class", IntDiv(i, 2) + 1)
                          ELSE Name("score", IntDiv(i, 2) + 1),
             IF i % 2 = 0 THEN COLTYPE_VARCHAR ELSE COLTYPE_FLOAT>>]

\* get_measurements: the feature names of a category
get_measurements(object_name, category) ==
    IF object_name = IMAGE /\ category = C_REMOTE_SERVICE
    THEN {<<"Magic">>}
    ELSE {}

NeuralIdle ==
    /\ batch_size = 1
    /\ has_neural = FALSE
    /\ count = 0
    /\ images = <<>>
    /\ image_set_numbers = <<>>
    /\ session = 0
    /\ meas = [k \in ImageNums \X FeatureIdx |-> <<>>]
    /\ image_set_number = 0
    /\ group = 0
    /\ phase = "idle"
    /\ lastCall = "none"
    /\ loads = 0
    /\ groupSession = <<>>
    /\ runGroup = [n \in ImageNums |-> 0]
    /\ runImage = [n \in ImageNums |-> 0]
    /\ flushLog = <<>>

InitRemote == NeuralIdle /\ RemoteIdle /\ DTIdle

NextRemote ==
    \/ remote_run /\ UNCHANGED <<neuralVars, dtVars>>
    \/ remote_next_image_set /\ UNCHANGED <<neuralVars, dtVars>>

SpecRemote == InitRemote /\ [][NextRemote]_vars

\* ----------------------------------------------------- DistanceTransform
Width == 2           \* columns of an input image
Height == 2          \* rows of an input image
MaxUnspecified == 2  \* values tried where the transform has no zero pixel to measure from

\* the largest uint16, the range img_as_uint converts to
UInt16Max == 65535

\* A float pixel value v is held as the integer 2 * 65535 * v, so that
\* v * 65535 is a whole number of halves and rounding is exact.
One == 2 * UInt16Max

\* float pixel values: -1/65535, 0, 0.5/65535, 1/65535, 1.5/65535, 1, and
\* one value above 1
PixelValues == {-2, 0, 1, 2, 3, One, One + 1}

Grid == (1..Height) \X (1..Width)
InputImages == [Grid -> PixelValues]

\* np.rint of h / 2: to the nearest integer, a half to the even neighbour
RInt(h) ==
    IF h % 2 = 0 THEN h \div 2
    ELSE LET below == (h - 1) \div 2
         IN IF below % 2 = 0 THEN below ELSE below + 1

Clip(v, lo, hi) == IF v < lo THEN lo ELSE IF v > hi THEN hi ELSE v

\* skimage.img_as_uint of a float image raises ValueError outside [-1, 1]
OutOfRange(img) == \E p \in DOMAIN img : img[p] < -One \/ img[p] > One

\* skimage.img_as_uint of a float image: scale by 65535, round, clip to uint16
img_as_uint(img) ==
    [p \in DOMAIN img |-> Clip(RInt(img[p]), 0, UInt16Max) % (UInt16Max + 1)]

SqDist(p, q) == (p[1] - q[1]) * (p[1] - q[1]) + (p[2] - q[2]) * (p[2] - q[2])

SetMin(S) == CHOOSE m \in S : \A n \in S : m <= n

\* scipy.ndimage.distance_transform_edt: the distance of a non-zero pixel to
\* the nearest zero pixel, 0 at a zero pixel. The value kept is the square of
\* the Euclidean distance. `unspecified` is what a pixel gets when the image
\* has no zero pixel at all.
distance_transform_edt(img, unspecified) ==
    LET zeros == {q \in DOMAIN img : img[q] = 0}
    IN [p \in DOMAIN img |->
          IF zeros = {} THEN unspecified
          ELSE SetMin({SqDist(p, q) : q \in zeros})]

\* run on one image set holding the image img under x_name
dt_run_on(img, unspecified) ==
    /\ dt_phase = "ready"
    /\ dt_phase' = "done"
    /\ pixel_data' = img
    /\ IF OutOfRange(img)
       THEN /\ dt_raised' = TRUE
            /\ unspecified = 1
            /\ UNCHANGED <<x_data, y_data>>
       ELSE /\ dt_raised' = FALSE
            /\ x_data' = img_as_uint(img)
            /\ (\E q \in DOMAIN img : img_as_uint(img)[q] = 0) => unspecified = 1
            /\ y_data' = distance_transform_edt(img_as_uint(img), unspecified)

dt_run == \E img \in InputImages, unspecified \in 1..MaxUnspecified :
              dt_run_on(img, unspecified)

\* the host moves to the next image set
dt_next_image_set ==
    /\ dt_phase = "done"
    /\ dt_phase' = "ready"
    /\ pixel_data' = <<>>
    /\ x_data' = <<>>
    /\ y_data' = <<>>
    /\ dt_raised' = FALSE

InitDT == NeuralIdle /\ RemoteIdle /\ DTIdle

NextDT ==
    \/ dt_run /\ UNCHANGED <<neuralVars, remoteVars>>
    \/ dt_next_image_set /\ UNCHANGED <<neuralVars, remoteVars>>

SpecDT == InitDT /\ [][NextDT]_vars

\* -------------------------------------------- claims on MeasureNeuralFeatures
Flushes == {flushLog[i] : i \in DOMAIN flushLog}
GroupRuns(g) == {n \in ImageNums : runGroup[n] = g}
SeqRange(q) == {q[i] : i \in DOMAIN q}

\* C1: a host call invokes process_batch at most once, and it does so exactly
\* when it is the run whose append makes the accumulated images reach
\* batch_size, or the post_group that finds at least one accumulated image.
C1_FlushExactlyAtCapacityOrGroupEnd ==
    [][LET invoked == Len(flushLog') - Len(flushLog)
       IN /\ invoked \in {0, 1}
          /\ (invoked = 1) <=>
                \/ lastCall' = "run" /\ Len(images) + 1 = batch_size
                \/ lastCall' = "post_group" /\ Len(images) > 0
          /\ (invoked = 1) => flushLog'[Len(flushLog')].by = lastCall']_vars

\* a group that flushed at capacity in a run, ran on without flushing, and
\* flushed the rest in post_group
C1_Witness ==
    /\ batch_size >= 2
    /\ lastCall = "post_group"
    /\ phase = "idle"
    /\ \E a, b \in Flushes :
          /\ a.by = "run" /\ b.by = "post_group"
          /\ a.group = group /\ b.group = group
          /\ ~a.raised /\ ~b.raised

\* C2: no (image_set_number, j) measurement is written twice, and no image
\* set flushed by one process_batch is part of a later one.
C2_NoDuplicateMeasurement ==
    /\ \A k \in DOMAIN meas : Len(meas[k]) <= 1
    /\ \A a, b \in DOMAIN flushLog :
          (a < b /\ ~flushLog[a].raised) =>
              SeqRange(flushLog[a].nums) \cap SeqRange(flushLog[b].nums) = {}

\* two successful flushes in one group, the second after further runs
C2_Witness ==
    \E a, b \in DOMAIN flushLog :
       /\ a < b
       /\ ~flushLog[a].raised /\ ~flushLog[b].raised
       /\ flushLog[a].group = flushLog[b].group
       /\ \A n \in SeqRange(flushLog[a].nums) \cup SeqRange(flushLog[b].nums) :
             \A j \in FeatureIdx : Len(meas[<<n, j>>]) = 1

\* C5: the model is loaded once per group, by prepare_group alone: only a
\* prepare_group step changes the number of loads or the stored handle, and
\* every process_batch uses the handle its group's prepare_group stored.
C5_ModelLoadedOncePerGroup ==
    /\ [](/\ loads = Cardinality({g \in DOMAIN groupSession : groupSession[g] # 0})
          /\ \A f \in Flushes : f.session # 0 /\ f.session = groupSession[f.group])
    /\ [][(loads' # loads \/ session' # session)
            => (lastCall' = "prepare_group" /\ loads' \in {loads, loads + 1})]_vars

\* two groups, each with its own load, each flushed with its own handle
C5_Witness ==
    /\ loads = 2
    /\ \E a, b \in Flushes :
          /\ a.group = 1 /\ b.group = 2
          /\ a.session = 1 /\ b.session = 2
          /\ ~a.raised /\ ~b.raised

\* C6: right after prepare_group both accumulated lists are empty and count
\* is 0, and a process_batch only ever flushes image sets that a run of its
\* own group received.
C6_ScratchClearedBetweenGroups ==
    /\ lastCall = "prepare_group" =>
          (images = <<>> /\ image_set_numbers = <<>> /\ count = 0)
    /\ \A f \in Flushes : \A n \in SeqRange(f.nums) : runGroup[n] = f.group

\* prepare_group called while an image of the previous group, which ended
\* without post_group, was still accumulated
C6_Witness ==
    /\ lastCall = "prepare_group"
    /\ group >= 2
    /\ \A f \in Flushes : ~f.raised
    /\ \E n \in GroupRuns(group - 1) : meas[<<n, 0>>] = <<>>

\* C10: when post_group has returned without an error, the accumulator is
\* empty and every image set a run of this group received has each of its
\* feature measurements written exactly once.
C10_GroupFullyFlushedOnce ==
    (lastCall = "post_group" /\ phase = "idle") =>
        /\ images = <<>>
        /\ image_set_numbers = <<>>
        /\ \A n \in GroupRuns(group) : \A j \in FeatureIdx : Len(meas[<<n, j>>]) = 1

\* a group of more than batch_size images whose last, partial batch was
\* flushed by post_group
C10_Witness ==
    /\ lastCall = "post_group"
    /\ phase = "idle"
    /\ batch_size >= 2
    /\ Cardinality(GroupRuns(group)) > batch_size
    /\ flushLog # <<>>
    /\ LET f == flushLog[Len(flushLog)]
       IN f.by = "post_group" /\ Len(f.nums) < batch_size /\ Len(f.nums) >= 1

\* C11: every value in the measurement store under image set n, feature j,
\* is feature j of the image that run received with image set n: a row is
\* written to its own image set, not to the one current at the flush.
C11_RowWrittenToOwnImageSet ==
    \A k \in DOMAIN meas :
        \A w \in DOMAIN meas[k] :
            /\ runImage[k[1]] # 0
            /\ meas[k][w] = Features(runImage[k[1]], k[2])

\* a flush of two image sets holding different images, each with its own
\* features recorded
C11_Witness ==
    \E f \in Flushes :
       /\ ~f.raised
       /\ Len(f.nums) >= 2
       /\ runImage[f.nums[1]] # runImage[f.nums[Len(f.nums)]]
       /\ \A i \in DOMAIN f.nums : \A j \in FeatureIdx :
             meas[<<f.nums[i], j>>] = <<Features(runImage[f.nums[i]], j)>>

\* C13: between host calls after a prepare_group that loaded the model, with
\* no error raised, the two accumulated lists have the same length, that
\* length is below batch_size, and count is the number of runs completed
\* since that prepare_group.
C13_AccumulatorBelowBatchSize ==
    (phase \in {"in_group", "idle"} /\ group >= 1) =>
        /\ Len(images) = Len(image_set_numbers)
        /\ Len(images) < batch_size
        /\ count = Cardinality(GroupRuns(group))

\* more runs than one full batch, with a partial batch left accumulated
C13_Witness ==
    /\ phase = "in_group"
    /\ lastCall = "run"
    /\ batch_size >= 2
    /\ count > batch_size
    /\ Len(images) = batch_size - 1

\* ------------------------------------- claims on MeasureImageViaRemoteService
Min(a, b) == IF a <= b THEN a ELSE b
RunReturned == rs_phase = "done" /\ raised = "none"

\* C7: a run that returns has recorded, for each pair i = 1, 2, ... of
\* zip(classes, scores) in order, class<i> with the class string and then
\* score<i> with the float score, and has recorded nothing else.
C7_PairsRecordedAsClassAndScore ==
    RunReturned =>
        LET n == Min(Len(classes), Len(scores))
        IN /\ Len(added) = 2 * n
           /\ \A i \in 1..n :
                 /\ added[2 * i - 1] = <<Name("class", i), classes[i]>>
                 /\ added[2 * i] = <<Name("score", i), scores[i]>>
                 /\ classes[i][1] = "str"
                 /\ scores[i][1] = "float"

\* a run that recorded two different pairs
C7_Witness ==
    /\ RunReturned
    /\ Len(classes) = 2 /\ Len(scores) = 2
    /\ classes[1] # classes[2]
    /\ scores[1] # scores[2]
    /\ Len(added) = 4

\* C8: when the Classify call fails, run ends with that error after one
\* call attempt and has recorded no measurement.
C8_RpcFailurePropagates ==
    (rs_phase = "done" /\ rpc_failed) =>
        (raised = "rpc" /\ attempts = 1 /\ added = <<>>)

\* a run whose Classify call failed
C8_Witness == rs_phase = "done" /\ rpc_failed /\ raised = "rpc"

\* C9: every measurement name a run records is a column of
\* get_measurement_columns for the Image object, varchar for a class and float
\* for a score, and is a feature name get_measurements reports for the Image
\* object and the module's category.
C9_MeasurementNamesDeclared ==
    RunReturned =>
        \A k \in DOMAIN added :
            LET name == added[k][1]
                coltype == IF name[1] = "class" THEN COLTYPE_VARCHAR ELSE COLTYPE_FLOAT
            IN /\ \E c \in DOMAIN get_measurement_columns :
                     get_measurement_columns[c] = <<IMAGE, name, coltype>>
               /\ name \in get_measurements(IMAGE, C_REMOTE_SERVICE)

IsClassLine(line) == Len(line) = 2 /\ ~StartsWith(line[1], Str_score)
                                   /\ StartsWith(line[1], Str_class)
IsScoreLine(line) == Len(line) = 2 /\ StartsWith(line[1], Str_score)
Reorder(text, p) == [i \in 1..Len(text) |-> text[p[i]]]
ZipPairs(cs, ss) == {<<cs[i], ss[i]>> : i \in 1..Min(Len(cs), Len(ss))}
RowPairs(rows) == {{rows[i][1], rows[i][2]} : i \in DOMAIN rows}
SameKindOrder(t, u) ==
    /\ SelectSeq(t, IsClassLine) = SelectSeq(u, IsClassLine)
    /\ SelectSeq(t, IsScoreLine) = SelectSeq(u, IsScoreLine)
ClassesFirst(t) ==
    \A i, j \in DOMAIN t : (IsScoreLine(t[i]) /\ IsClassLine(t[j])) => j < i
ScoresFirst(t) ==
    \A i, j \in DOMAIN t : (IsClassLine(t[i]) /\ IsScoreLine(t[j])) => j < i

\* C3 as stated: for a response of k class lines and k score lines, every
\* reordering of its lines gives the same set of pairs, in zip(classes, scores)
\* and in the rows of disp_lines.
C3_AnyReorderingSamePairs ==
    (RunReturned /\ Len(classes) = Len(scores)) =>
        \A p \in Permutations(1..Len(result)) :
            LET r == ParseResponse(Reorder(result, p))
            IN /\ ZipPairs(r.classes, r.scores) = ZipPairs(classes, scores)
               /\ RowPairs(DispLines(r.lines)) = RowPairs(disp_lines)

\* C3 as amended: for a response of k class lines and k score lines, every
\* reordering that keeps the class lines in their order and the score lines in
\* theirs, however the two kinds interleave, gives the same classes and scores
\* lists, so the i-th class is paired with the i-th score; the rows of
\* disp_lines are these pairs when all class lines precede all score lines
\* (rows [score, class]) or all score lines precede all class lines (rows
\* [class, score]).
C3_SameKindOrderSamePairs ==
    (RunReturned /\ Len(classes) = Len(scores)) =>
        /\ \A p \in Permutations(1..Len(result)) :
              LET t == Reorder(result, p)
                  r == ParseResponse(t)
              IN SameKindOrder(result, t) =>
                    (~r.raised /\ r.classes = classes /\ r.scores = scores)
        /\ ClassesFirst(result) =>
              disp_lines = [i \in 1..Len(classes) |-> <<scores[i], classes[i]>>]
        /\ ScoresFirst(result) =>
              disp_lines = [i \in 1..Len(classes) |-> <<classes[i], scores[i]>>]

\* two predictions answered as class, score, class, score
C3_Witness ==
    /\ RunReturned
    /\ Len(result) = 4
    /\ IsClassLine(result[1]) /\ IsScoreLine(result[2])
    /\ IsClassLine(result[3]) /\ IsScoreLine(result[4])
    /\ classes[1] # classes[2]
    /\ scores[1] # scores[2]
    /\ Len(added) = 4

ClassCount(t) == Len(SelectSeq(t, IsClassLine))
ScoreCount(t) == Len(SelectSeq(t, IsScoreLine))
WellFormed(t) == \A i \in DOMAIN t : IsBlank(t[i]) \/ Len(t[i]) = 2

\* C12: for a response whose lines all split into a key and a value, with c
\* class lines and s score lines, c # s, run returns without an error having
\* recorded min(c, s) pairs under the indices 1..min(c, s), and disp_lines
\* has floor((c + s) / 2) rows, row i made of lines[floor(n / 2) + i] and
\* lines[i] (i from 0) for n = c + s.
C12_UnequalCountsTruncated ==
    (rs_phase = "done" /\ ~rpc_failed /\ WellFormed(result)
        /\ ClassCount(result) # ScoreCount(result)) =>
        LET c == ClassCount(result)
            s == ScoreCount(result)
            n == c + s
            half == n \div 2
        IN /\ raised = "none"
           /\ Len(added) = 2 * Min(c, s)
           /\ {added[k][1] : k \in DOMAIN added} =
                 {Name("class", i) : i \in 1..Min(c, s)}
                    \cup {Name("score", i) : i \in 1..Min(c, s)}
           /\ Len(lines) = n
           /\ Len(disp_lines) = half
           /\ \A i \in 1..half : disp_lines[i] = <<lines[half + i], lines[i]>>

\* three class lines and one score line: one pair recorded, two rows shown
C12_Witness ==
    /\ RunReturned
    /\ ClassCount(result) = 3
    /\ ScoreCount(result) = 1
    /\ Len(added) = 2
    /\ Len(disp_lines) = 2

\* --------------------------------------------------- claims on DistanceTransform
\* C4: the output of a run is non-negative at every pixel, and is zero at a
\* pixel exactly when the input pixel_data, before img_as_uint, is zero there.
C4_ZeroExactlyAtOriginalZeros ==
    (dt_phase = "done" /\ ~dt_raised) =>
        \A p \in Grid : /\ y_data[p] >= 0
                        /\ (y_data[p] = 0) <=> (pixel_data[p] = 0)

====
